---- MODULE Spec2Model ----
(***************************************************************************)
(* Model of the serial ingestion core of App.tsx: the line assembler and   *)
(* record parser of handleDataChunk, the bounded series store, the channel *)
(* registry and the connect / disconnect / pause / clear handlers.         *)
(*                                                                         *)
(* Text is a sequence of one-character strings.  Wall-clock time is an     *)
(* integer number of milliseconds.  A timestamp is kept as the millisecond *)
(* numerator (now - startTimeRef) of the code's division by 1000.          *)
(* React state and the refs that shadow it are separate variables; the     *)
(* isPaused effect of lines 76-78 runs in the commit of the update that    *)
(* changes isPaused.                                                       *)
(***************************************************************************)
EXTENDS Integers, Sequences, FiniteSets, TLC

\* ---------------------------------------------------------------- bounds
MaxReads == 2
MaxText == 5
MaxClock == 2
MaxConnects == 2
MaxAnalyses == 2

\* ------------------------------------------------------ program constants
MAX_POINTS == 2000

\* --------------------------------------------------------------- alphabet
NL == "\n"
COMMA == ","
Digits == {"1", "2"}
Whitespace == {" "}
Chars == Digits \cup Whitespace \cup {NL, COMMA, "x"}

\* parseFloat's NaN; every number the alphabet can spell is >= 0
NaN == -1

DigitVal(c) == IF c = "1" THEN 1 ELSE 2

\* --------------------------------------------------------- string helpers
\* String.prototype.split(sep): n separators give n+1 segments
RECURSIVE SplitOn(_, _)
SplitOn(s, sep) ==
  IF \A i \in 1..Len(s) : s[i] # sep THEN <<s>>
  ELSE LET i == CHOOSE j \in 1..Len(s) :
                  s[j] = sep /\ \A k \in 1..(j-1) : s[k] # sep
       IN <<SubSeq(s, 1, i-1)>> \o SplitOn(SubSeq(s, i+1, Len(s)), sep)

\* String.prototype.trim()
RECURSIVE TrimLeft(_)
TrimLeft(s) ==
  IF s # <<>> /\ Head(s) \in Whitespace THEN TrimLeft(Tail(s)) ELSE s

RECURSIVE TrimRight(_)
TrimRight(s) ==
  IF s # <<>> /\ s[Len(s)] \in Whitespace
  THEN TrimRight(SubSeq(s, 1, Len(s)-1)) ELSE s

Trim(s) == TrimRight(TrimLeft(s))

\* the longest prefix of decimal digits
RECURSIVE DigitPrefix(_)
DigitPrefix(s) ==
  IF s # <<>> /\ Head(s) \in Digits
  THEN <<Head(s)>> \o DigitPrefix(Tail(s)) ELSE <<>>

RECURSIVE DecimalValue(_)
DecimalValue(ds) ==
  IF ds = <<>> THEN 0
  ELSE 10 * DecimalValue(SubSeq(ds, 1, Len(ds)-1)) + DigitVal(ds[Len(ds)])

\* parseFloat: skips leading white space, converts the longest numeric
\* prefix and ignores whatever follows it; NaN when there is no such prefix
ParseFloat(s) ==
  LET ds == DigitPrefix(TrimLeft(s))
  IN IF ds = <<>> THEN NaN ELSE DecimalValue(ds)

\* trimmed.split(',').map(p => parseFloat(p.trim()))
ParseParts(trimmed) ==
  LET fields == SplitOn(trimmed, COMMA)
  IN [i \in 1..Len(fields) |-> ParseFloat(Trim(fields[i]))]

\* some instead of every
SomeNumeric(parts) == \E i \in 1..Len(parts) : parts[i] # NaN

\* parts.every(p => !isNaN(p))
AllNumeric(parts) == \A i \in 1..Len(parts) : parts[i] # NaN

\* `Sensor ${idx + 1}` for the 0-based field index idx
KeyNames == <<"Sensor 1", "Sensor 2", "Sensor 3", "Sensor 4",
              "Sensor 5", "Sensor 6", "Sensor 7">>
SensorKey(idx) == KeyNames[idx + 1]

\* toLocaleTimeString(...): the time of day at one-second resolution
FormatTime(now) == (now \div 1000) % 86400

\* ------------------------------------------------------------------ state
VARIABLES
  connectionState,          \* useState<ConnectionState>
  port,                     \* useState port: 0 is null, n the port of the n-th connect
  data,                     \* useState<DataPoint[]>, the series store
  dataKeys,                 \* useState<string[]>, the channel keys
  sensorNames,              \* useState<Record<string,string>>
  startTime,                \* useState<number>
  isPaused,                 \* useState<boolean>
  readerRef,                \* useRef reader: 0 is null, n the reader of port n
  readableStreamClosedRef,  \* useRef pipe promise: 0 is null
  inputBufferRef,           \* useRef<string>, the pending buffer
  isPausedRef,              \* useRef<boolean>
  startTimeRef,             \* useRef<number>
  clock,                    \* Date.now()
  loops,                    \* readers whose readSerialLoop is running
  connecting,               \* handleConnect calls awaiting requestPort/open
  timers,                   \* pending setTimeout callbacks of line 110
  nconn,                    \* handleConnect calls so far
  disc,                     \* the handleDisconnect call in progress
  aiAnalysis,               \* useState<string | null>: 0 is null
  isAnalyzing,              \* useState<boolean>
  analysis,                 \* the handleAIAnalyze call awaiting its result
  nreq,                     \* handleAIAnalyze calls so far
  csvContent,               \* the CSV of the last download
  awaited,                  \* history: how the awaits of the last teardown settled
  reads,                    \* history: the number of chunks read so far
  fed,                      \* history: the chunks fed by FeedChunk
  accepted,                 \* history: points accepted since the last clear
  dropped,                  \* history: points discarded while paused
  sessionPoints             \* history: points stored under the current epoch

uiVars   == <<connectionState, port, isPaused, isPausedRef>>
dataVars == <<data, dataKeys, sensorNames>>
timeVars == <<startTime, startTimeRef>>
connVars == <<readerRef, readableStreamClosedRef, loops, connecting,
              timers, nconn, disc>>
histVars == <<reads, fed, accepted, dropped, sessionPoints>>
aiVars   == <<aiAnalysis, isAnalyzing, analysis, nreq>>
vars == <<uiVars, dataVars, timeVars, connVars, histVars,
          inputBufferRef, clock, aiVars, csvContent, awaited>>

\* pc is the await the call is suspended at, port the port its closure
\* captured
NoDisconnect == [pc |-> "idle", port |-> 0]

\* no handleAIAnalyze call is suspended
NoAnalysis == [id |-> 0, cleared |-> FALSE]

\* no download yet
NoCsv == [headers |-> <<>>, rows |-> <<>>]

\* the empty Record<string,string>
NoNames == [k \in {} |-> ""]

Init ==
  /\ connectionState = "DISCONNECTED"
  /\ port = 0
  /\ data = <<>>
  /\ dataKeys = <<>>
  /\ sensorNames = NoNames
  /\ startTime = 0
  /\ isPaused = FALSE
  /\ readerRef = 0
  /\ readableStreamClosedRef = 0
  /\ inputBufferRef = <<>>
  /\ isPausedRef = FALSE
  /\ startTimeRef = 0
  /\ clock = 1
  /\ loops = {}
  /\ connecting = {}
  /\ timers = 0
  /\ nconn = 0
  /\ disc = NoDisconnect
  /\ aiAnalysis = 0
  /\ isAnalyzing = FALSE
  /\ analysis = NoAnalysis
  /\ nreq = 0
  /\ csvContent = NoCsv
  /\ awaited = <<>>
  /\ reads = 0
  /\ fed = <<>>
  /\ accepted = <<>>
  /\ dropped = 0
  /\ sessionPoints = 0

\* -------------------------------------------------------- handleDataChunk
\* inputBufferRef.current += chunk; lines = split('\n')
AssembledLines(buffer, chunk) == SplitOn(buffer \o chunk, NL)

\* the partial line is discarded instead of kept
PendingAfterDropped(buffer, chunk) == <<>>

\* the buffer is never cut back to the partial line
PendingAfterWhole(buffer, chunk) == buffer \o chunk

\* lines.pop() || ''
PendingAfter(buffer, chunk) ==
  LET lines == AssembledLines(buffer, chunk) IN lines[Len(lines)]

\* the lines left in the array after lines.pop()
CompleteLines(buffer, chunk) ==
  LET lines == AssembledLines(buffer, chunk) IN SubSeq(lines, 1, Len(lines)-1)

\* the elapsed time is taken with the operands swapped
MakePointSwapped(parts, now, epoch) ==
  LET keys == {SensorKey(idx) : idx \in 0..(Len(parts)-1)}
  IN [k \in {"timestamp", "formattedTime"} \cup keys |->
        IF k = "timestamp" THEN epoch - now
        ELSE IF k = "formattedTime" THEN FormatTime(now)
        ELSE parts[CHOOSE i \in 1..Len(parts) : SensorKey(i-1) = k]]

\* the DataPoint of lines 215-225
MakePoint(parts, now, epoch) ==
  LET keys == {SensorKey(idx) : idx \in 0..(Len(parts)-1)}
  IN [k \in {"timestamp", "formattedTime"} \cup keys |->
        IF k = "timestamp" THEN now - epoch
        ELSE IF k = "formattedTime" THEN FormatTime(now)
        ELSE parts[CHOOSE i \in 1..Len(parts) : SensorKey(i-1) = k]]

\* does the record produce a point (lines 203-210)
Accepts(line) ==
  LET trimmed == Trim(line)
  IN trimmed # <<>> /\ AllNumeric(ParseParts(trimmed))

\* lines.forEach: the points pushed to newDataPoints
RECURSIVE NewDataPoints(_, _, _)
NewDataPoints(lines, now, epoch) ==
  IF lines = <<>> THEN <<>>
  ELSE (IF Accepts(Head(lines))
        THEN <<MakePoint(ParseParts(Trim(Head(lines))), now, epoch)>>
        ELSE <<>>) \o NewDataPoints(Tail(lines), now, epoch)

\* if (!detectedKeys.includes(key)) detectedKeys.push(key), for one record
RECURSIVE PushKeys(_, _, _)
PushKeys(detected, n, idx) ==
  IF idx >= n THEN detected
  ELSE LET key == SensorKey(idx)
       IN PushKeys(IF \E i \in 1..Len(detected) : detected[i] = key
                   THEN detected ELSE Append(detected, key), n, idx + 1)

\* the keys of the first accepted record only
RECURSIVE DetectedKeysFirstOnly(_, _)
DetectedKeysFirstOnly(lines, detected) ==
  IF lines = <<>> THEN detected
  ELSE IF Accepts(Head(lines))
  THEN PushKeys(detected, Len(ParseParts(Trim(Head(lines)))), 0)
  ELSE DetectedKeysFirstOnly(Tail(lines), detected)

\* detectedKeys after the forEach over the lines
RECURSIVE DetectedKeys(_, _)
DetectedKeys(lines, detected) ==
  IF lines = <<>> THEN detected
  ELSE DetectedKeys(Tail(lines),
         IF Accepts(Head(lines))
         THEN PushKeys(detected, Len(ParseParts(Trim(Head(lines)))), 0)
         ELSE detected)

Min(a, b) == IF a <= b THEN a ELSE b

\* updated.slice(-2000)
SliceLast(s, n) == IF Len(s) <= n THEN s ELSE SubSeq(s, Len(s) - n + 1, Len(s))

\* the window is cut from the front: slice(0, 2000)
AppendPointsKeepOldest(prev, points) ==
  LET updated == prev \o points
  IN SubSeq(updated, 1, Min(Len(updated), MAX_POINTS))

\* setData(prev => [...prev, ...newDataPoints].slice(-2000))
AppendPoints(prev, points) == SliceLast(prev \o points, MAX_POINTS)

\* the setSensorNames updater of lines 241-247
RECURSIVE DefaultNames(_, _)
DefaultNames(curr, keys) ==
  IF keys = <<>> THEN curr
  ELSE LET k == Head(keys)
       IN DefaultNames(IF k \in DOMAIN curr /\ curr[k] # ""
                       THEN curr ELSE (k :> k) @@ curr, Tail(keys))

\* the registry follows the keys of the latest chunk
NextDataKeysLatest(prev, detectedKeys) ==
  IF detectedKeys # <<>> THEN detectedKeys ELSE prev

\* the setDataKeys updater of lines 239-251
NextDataKeys(prev, detectedKeys) ==
  IF prev = <<>> /\ detectedKeys # <<>> THEN detectedKeys ELSE prev

\* the pause test comes first: a paused call returns before buffering
HandleDataChunkPauseFirst(chunk) ==
  LET lines  == CompleteLines(inputBufferRef, chunk)
      points == NewDataPoints(lines, clock, startTimeRef)
      keys   == DetectedKeys(lines, <<>>)
  IN /\ reads' = reads + 1
     /\ IF isPausedRef
        THEN UNCHANGED <<inputBufferRef, dataVars, accepted, dropped,
                         sessionPoints>>
        ELSE /\ inputBufferRef' = PendingAfter(inputBufferRef, chunk)
             /\ IF points = <<>>
                THEN UNCHANGED <<dataVars, accepted, dropped, sessionPoints>>
                ELSE /\ data' = AppendPoints(data, points)
                     /\ dataKeys' = NextDataKeys(dataKeys, keys)
                     /\ sensorNames' = IF dataKeys = <<>> /\ keys # <<>>
                                       THEN DefaultNames(sensorNames, keys)
                                       ELSE sensorNames
                     /\ accepted' = accepted \o points
                     /\ sessionPoints' =
                          Min(sessionPoints + Len(points), MAX_POINTS)
                     /\ UNCHANGED dropped
     /\ UNCHANGED <<uiVars, timeVars, connVars, clock, aiVars, csvContent, awaited>>

HandleDataChunk(chunk) ==
  LET lines  == CompleteLines(inputBufferRef, chunk)
      points == NewDataPoints(lines, clock, startTimeRef)
      keys   == DetectedKeys(lines, <<>>)
  IN /\ inputBufferRef' = PendingAfter(inputBufferRef, chunk)
     /\ reads' = reads + 1
     /\ IF isPausedRef
        THEN /\ dropped' = dropped + Len(points)
             /\ UNCHANGED <<dataVars, accepted, sessionPoints>>
        ELSE IF points = <<>>
        THEN UNCHANGED <<dataVars, accepted, dropped, sessionPoints>>
        ELSE /\ data' = AppendPoints(data, points)
             /\ dataKeys' = NextDataKeys(dataKeys, keys)
             /\ sensorNames' = IF dataKeys = <<>> /\ keys # <<>>
                               THEN DefaultNames(sensorNames, keys)
                               ELSE sensorNames
             /\ accepted' = accepted \o points
             /\ sessionPoints' = Min(sessionPoints + Len(points), MAX_POINTS)
             /\ UNCHANGED dropped
     /\ UNCHANGED <<uiVars, timeVars, connVars, clock, aiVars, csvContent, awaited>>

\* ------------------------------------------------------------ togglePause
\* the state is toggled and the ref is left stale
TogglePauseNoSync ==
  /\ connectionState \in {"CONNECTING", "CONNECTED"}
  /\ isPaused' = ~isPaused
  /\ UNCHANGED <<connectionState, port, isPausedRef, dataVars, timeVars,
                 connVars, histVars, inputBufferRef, clock, aiVars, csvContent, awaited>>

\* resuming restarts the epoch
TogglePauseNewEpoch ==
  /\ connectionState \in {"CONNECTING", "CONNECTED"}
  /\ isPaused' = ~isPaused
  /\ isPausedRef' = ~isPaused
  /\ startTime' = IF isPaused THEN clock ELSE startTime
  /\ startTimeRef' = IF isPaused THEN clock ELSE startTimeRef
  /\ UNCHANGED <<connectionState, port, dataVars, connVars,
                 histVars, inputBufferRef, clock, aiVars, csvContent, awaited>>

\* setIsPaused(prev => !prev); the effect of lines 76-78 copies it to the ref.
\* The button is rendered in the CONNECTING and CONNECTED states.
TogglePause ==
  /\ connectionState \in {"CONNECTING", "CONNECTED"}
  /\ isPaused' = ~isPaused
  /\ isPausedRef' = ~isPaused
  /\ UNCHANGED <<connectionState, port, dataVars, timeVars, connVars,
                 histVars, inputBufferRef, clock, aiVars, csvContent, awaited>>

\* ------------------------------------------------------------ handleClear
\* the state is reset and the ref keeps the old epoch
HandleClearStaleRef ==
  /\ data' = <<>>
  /\ startTime' = clock
  /\ dataKeys' = <<>>
  /\ sensorNames' = NoNames
  /\ accepted' = <<>>
  /\ sessionPoints' = 0
  /\ aiAnalysis' = 0
  /\ analysis' = IF analysis = NoAnalysis THEN analysis
               ELSE [analysis EXCEPT !.cleared = TRUE]
  /\ UNCHANGED <<uiVars, connVars, startTimeRef, reads, fed, dropped,
                 inputBufferRef, clock,
                 isAnalyzing, nreq, csvContent, awaited>>

\* the reset also resumes a paused session
HandleClearResumes ==
  /\ data' = <<>>
  /\ startTime' = clock
  /\ startTimeRef' = clock
  /\ dataKeys' = <<>>
  /\ sensorNames' = NoNames
  /\ accepted' = <<>>
  /\ sessionPoints' = 0
  /\ aiAnalysis' = 0
  /\ analysis' = IF analysis = NoAnalysis THEN analysis
               ELSE [analysis EXCEPT !.cleared = TRUE]
  /\ isPaused' = FALSE
  /\ isPausedRef' = FALSE
  /\ UNCHANGED <<connectionState, port, connVars, reads, fed, dropped,
                 inputBufferRef, clock, isAnalyzing, nreq, csvContent, awaited>>

HandleClear ==
  /\ data' = <<>>
  /\ startTime' = clock
  /\ startTimeRef' = clock
  /\ dataKeys' = <<>>
  /\ sensorNames' = NoNames
  /\ accepted' = <<>>
  /\ sessionPoints' = 0
  /\ aiAnalysis' = 0
  /\ analysis' = IF analysis = NoAnalysis THEN analysis
               ELSE [analysis EXCEPT !.cleared = TRUE]
  /\ UNCHANGED <<uiVars, connVars, reads, fed, dropped, inputBufferRef, clock,
                 isAnalyzing, nreq, csvContent, awaited>>

\* ------------------------------------------------------- handleNameChange
Names == {"Temp"}
RenamedKeys == {"Sensor 1"}

\* the new record holds the renamed key only
HandleNameChangeReplaces(key, newName) ==
  /\ sensorNames' = (key :> newName)
  /\ UNCHANGED <<uiVars, data, dataKeys, timeVars, connVars, histVars,
                 inputBufferRef, clock, aiVars, csvContent, awaited>>

HandleNameChange(key, newName) ==
  /\ sensorNames' = (key :> newName) @@ sensorNames
  /\ UNCHANGED <<uiVars, data, dataKeys, timeVars, connVars, histVars,
                 inputBufferRef, clock, aiVars, csvContent, awaited>>

\* ----------------------------------------------------------- handleExport
DigitChars == <<"0", "1", "2", "3", "4", "5", "6", "7", "8", "9">>

\* Number.prototype.toString() of a non-negative integer
RECURSIVE NatText(_)
NatText(n) ==
  IF n < 10 THEN <<DigitChars[n + 1]>>
  ELSE NatText(n \div 10) \o <<DigitChars[(n % 10) + 1]>>

\* String.prototype.padStart(size, '0')
RECURSIVE PadStart(_, _)
PadStart(s, size) == IF Len(s) >= size THEN s ELSE PadStart(<<"0">> \o s, size)

\* the fraction is written without its leading zeros
ToFixed3Unpadded(ms) ==
  NatText(ms \div 1000) \o <<".">> \o NatText(ms % 1000)

\* pt.timestamp.toFixed(3) for the timestamp ms / 1000, ms >= 0
ToFixed3(ms) ==
  NatText(ms \div 1000) \o <<".">> \o PadStart(NatText(ms % 1000), 3)

\* sensorNames[k] || k
DisplayName(names, k) ==
  IF k \in DOMAIN names /\ names[k] # "" THEN names[k] ELSE k

\* the fields of the header line (line 270)
CsvHeaders ==
  <<"Timestamp (s)", "Time">> \o
  [i \in 1..Len(dataKeys) |-> DisplayName(sensorNames, dataKeys[i])]

\* the fields of the line of one point (lines 272-273); join() writes a
\* number as its digits and undefined as the empty text
CsvRow(pt) ==
  <<ToFixed3(pt["timestamp"]), pt["formattedTime"]>> \o
  [i \in 1..Len(dataKeys) |->
     IF dataKeys[i] \in DOMAIN pt THEN NatText(pt[dataKeys[i]]) ELSE <<>>]

\* lines 267-284: csvContent is the header line and the lines of rows
HandleExport ==
  /\ csvContent' = IF Len(data) = 0 THEN csvContent
                   ELSE [headers |-> CsvHeaders,
                         rows |-> [i \in 1..Len(data) |-> CsvRow(data[i])]]
  /\ UNCHANGED <<uiVars, dataVars, timeVars, connVars, histVars,
                 inputBufferRef, clock, aiVars, awaited>>

\* ------------------------------------------------------ formatElapsedTime
\* A number is an IEEE 754 double.  A non-negative double is kept as its
\* integer part and the bits of its fraction, most significant first.
\* the bits of the significand
Precision == 53

\* the fraction bits a quotient is computed to before it is rounded
WorkBits == 70

FromInt(n) == [int |-> n, frac |-> <<>>]

RECURSIVE BitLen(_)
BitLen(n) == IF n = 0 THEN 0 ELSE 1 + BitLen(n \div 2)

RECURSIVE LeadingZeros(_)
LeadingZeros(bits) ==
  IF bits = <<>> \/ Head(bits) = 1 THEN 0 ELSE 1 + LeadingZeros(Tail(bits))

\* the first count fraction bits of (rem + 0.bits) / n by long division,
\* followed by 1 when the quotient has more non-zero bits and by 0 when not
RECURSIVE QuotientBits(_, _, _, _)
QuotientBits(rem, bits, n, count) ==
  IF count = 0
  THEN <<IF rem # 0 \/ (\E i \in 1..Len(bits) : bits[i] = 1) THEN 1 ELSE 0>>
  ELSE LET t == 2 * rem + (IF bits = <<>> THEN 0 ELSE Head(bits))
           q == IF t >= n THEN 1 ELSE 0
       IN <<q>> \o QuotientBits(t - n * q,
                                IF bits = <<>> THEN <<>> ELSE Tail(bits),
                                n, count - 1)

\* 0.bits * k + carry / 2^Len(bits), least significant bit first: the
\* bits of its fraction, then its integer part
RECURSIVE ProductBitsUp(_, _, _)
ProductBitsUp(bits, k, carry) ==
  IF bits = <<>> THEN <<carry>>
  ELSE LET t == bits[Len(bits)] * k + carry
       IN <<t % 2>> \o
          ProductBitsUp(SubSeq(bits, 1, Len(bits) - 1), k, t \div 2)

\* the integer part of 0.bits * k, then the bits of its fraction
ProductBits(bits, k) ==
  LET up == ProductBitsUp(bits, k, 0)
  IN [i \in 1..Len(up) |-> up[Len(up) + 1 - i]]

\* bits as a binary number, plus one; bits is not all ones
RECURSIVE Increment(_)
Increment(bits) ==
  IF bits[Len(bits)] = 0 THEN [bits EXCEPT ![Len(bits)] = 1]
  ELSE Append(Increment(SubSeq(bits, 1, Len(bits) - 1)), 0)

\* round to nearest, ties to even: the double nearest to int + 0.bits (plus
\* a non-zero tail when sticky)
RoundNearest(int, bits, sticky) ==
  LET keep == IF int > 0 THEN Precision - BitLen(int)
              ELSE LeadingZeros(bits) + Precision
  IN IF keep >= Len(bits) THEN [int |-> int, frac |-> bits]
     ELSE LET kept == SubSeq(bits, 1, keep)
              more == sticky \/ \E i \in (keep + 2)..Len(bits) : bits[i] = 1
              odd  == IF keep = 0 THEN int % 2 = 1 ELSE kept[keep] = 1
              up   == bits[keep + 1] = 1 /\ (more \/ odd)
          IN IF ~up THEN [int |-> int, frac |-> kept]
             ELSE IF \A i \in 1..keep : kept[i] = 1
             THEN [int |-> int + 1, frac |-> [i \in 1..keep |-> 0]]
             ELSE [int |-> int, frac |-> Increment(kept)]

\* x / n for a positive integer n
DoubleDiv(x, n) ==
  LET q == QuotientBits(x.int % n, x.frac, n, WorkBits)
  IN RoundNearest(x.int \div n, SubSeq(q, 1, WorkBits), q[WorkBits + 1] = 1)

\* x * k for a positive integer k
DoubleMul(x, k) ==
  LET p == ProductBits(x.frac, k)
  IN RoundNearest(x.int * k + Head(p), Tail(p), FALSE)

\* x % n: the remainder is exact
DoubleMod(x, n) == [int |-> x.int % n, frac |-> x.frac]

\* Math.floor
Floor(x) == x.int

\* pad(num, size)
Pad(num, size) == PadStart(NatText(num), size)

ZeroElapsed ==
  <<"0", "0", ":", "0", "0", ":", "0", "0", ".", "0", "0", "0">>

\* formatElapsedTime(totalSeconds) for totalSeconds = ms / 1000, the
\* timestamp of a point; NaN is not a number
FormatElapsedTime(ms) ==
  IF ms = NaN \/ ms < 0 THEN ZeroElapsed
  ELSE LET totalSeconds == DoubleDiv(FromInt(ms), 1000)
           hours        == Floor(DoubleDiv(totalSeconds, 3600))
           minutes      == Floor(DoubleDiv(DoubleMod(totalSeconds, 3600), 60))
           seconds      == Floor(DoubleMod(totalSeconds, 60))
           milliseconds == Floor(DoubleMul(DoubleMod(totalSeconds, 1), 1000))
       IN Pad(hours, 2) \o <<":">> \o Pad(minutes, 2) \o <<":">> \o
          Pad(seconds, 2) \o <<".">> \o Pad(milliseconds, 3)

\* -------------------------------------------------------- handleAIAnalyze
\* the analyze button is disabled below this many points (line 555)
MIN_ANALYZE_POINTS == 5

\* lines 286-300, up to the await; the button is disabled while
\* data.length < 5 or isAnalyzing (line 555)
HandleAIAnalyze ==
  /\ Len(data) >= MIN_ANALYZE_POINTS
  /\ ~isAnalyzing
  /\ nreq < MaxAnalyses
  /\ isAnalyzing' = TRUE
  /\ aiAnalysis' = 0
  /\ nreq' = nreq + 1
  /\ analysis' = [id |-> nreq + 1, cleared |-> FALSE]
  /\ UNCHANGED <<uiVars, dataVars, timeVars, connVars, histVars,
                 inputBufferRef, clock, csvContent, awaited>>

\* lines 300-303: analyzeExperimentData resolved with the text of request id
AnalysisReturned ==
  /\ analysis # NoAnalysis
  /\ aiAnalysis' = analysis.id
  /\ isAnalyzing' = FALSE
  /\ analysis' = NoAnalysis
  /\ UNCHANGED <<uiVars, dataVars, timeVars, connVars, histVars,
                 inputBufferRef, clock, nreq, csvContent, awaited>>

\* line 300: analyzeExperimentData rejected; the await throws out of
\* handleAIAnalyze, which has no catch, and lines 302-303 do not run
AnalysisFailed ==
  /\ analysis # NoAnalysis
  /\ analysis' = NoAnalysis
  /\ UNCHANGED <<uiVars, dataVars, timeVars, connVars, histVars,
                 inputBufferRef, clock, aiAnalysis, isAnalyzing, nreq,
                 csvContent, awaited>>

\* ---------------------------------------------------------- handleConnect
\* lines 85-92: the click, up to the first await
HandleConnect ==
  /\ connectionState \in {"DISCONNECTED", "ERROR"}
  /\ nconn < MaxConnects
  /\ connectionState' = "CONNECTING"
  /\ nconn' = nconn + 1
  /\ connecting' = connecting \cup {nconn + 1}
  /\ UNCHANGED <<port, isPaused, isPausedRef, dataVars, timeVars, readerRef,
                 readableStreamClosedRef, loops, timers,
                 disc, histVars, inputBufferRef, clock, aiVars, csvContent, awaited>>

\* lines 96-106 and readSerialLoop up to its first read (lines 159-164)
ConnectOpened(c) ==
  /\ c \in connecting
  /\ connecting' = connecting \ {c}
  /\ port' = c
  /\ connectionState' = "CONNECTED"
  /\ startTime' = clock
  /\ startTimeRef' = clock
  /\ isPaused' = FALSE
  /\ isPausedRef' = FALSE
  /\ readableStreamClosedRef' = c
  /\ readerRef' = c
  /\ loops' = loops \cup {c}
  /\ sessionPoints' = 0
  /\ UNCHANGED <<dataVars, timers, nconn, disc, reads, fed, accepted,
                 dropped, inputBufferRef, clock, aiVars, csvContent, awaited>>

\* the catch sets ERROR and schedules nothing
ConnectFailedNoTimer(c) ==
  /\ c \in connecting
  /\ connecting' = connecting \ {c}
  /\ connectionState' = "ERROR"
  /\ UNCHANGED <<port, isPaused, isPausedRef, dataVars, timeVars, readerRef,
                 readableStreamClosedRef, loops, timers, nconn, disc,
                 histVars, inputBufferRef, clock, aiVars, csvContent, awaited>>

\* lines 107-110: requestPort or open rejected
ConnectFailed(c) ==
  /\ c \in connecting
  /\ connecting' = connecting \ {c}
  /\ connectionState' = "ERROR"
  /\ timers' = timers + 1
  /\ UNCHANGED <<port, isPaused, isPausedRef, dataVars, timeVars, readerRef,
                 readableStreamClosedRef, loops, nconn, disc,
                 histVars, inputBufferRef, clock, aiVars, csvContent, awaited>>

\* the callback of setTimeout(..., 3000) of line 110
CoolDownTimer ==
  /\ timers > 0
  /\ timers' = timers - 1
  /\ connectionState' = "DISCONNECTED"
  /\ UNCHANGED <<port, isPaused, isPausedRef, dataVars, timeVars, readerRef,
                 readableStreamClosedRef, loops, connecting, nconn,
                 disc, histVars, inputBufferRef, clock, aiVars, csvContent, awaited>>

\* ---------------------------------------------------------- readSerialLoop
\* a read that delivers a value: handleDataChunk(value), lines 168-175
ReadChunk(r, chunk) ==
  /\ r \in loops
  /\ HandleDataChunk(chunk)
  /\ UNCHANGED fed

\* reader.read() rejects: the catch logs the error, finally releases the
\* lock and clears readerRef (lines 177-182)
ReadLoopError(r) ==
  /\ r \in loops
  /\ loops' = loops \ {r}
  /\ readerRef' = 0
  /\ UNCHANGED <<uiVars, dataVars, timeVars, readableStreamClosedRef,
                 connecting, timers, nconn, disc, histVars,
                 inputBufferRef, clock, aiVars, csvContent, awaited>>

\* the loop leaves on done; finally releases the lock and clears readerRef
\* (lines 169-182)
ReadLoopExit(r) ==
  /\ r \in loops
  /\ loops' = loops \ {r}
  /\ readerRef' = 0
  /\ UNCHANGED <<uiVars, dataVars, timeVars, readableStreamClosedRef,
                 connecting, timers, nconn, disc, histVars,
                 inputBufferRef, clock, aiVars, csvContent, awaited>>

\* ------------------------------------------------------- handleDisconnect
\* lines 144-147
DisconnectFinish ==
  /\ port' = 0
  /\ connectionState' = "DISCONNECTED"
  /\ isPaused' = FALSE
  /\ isPausedRef' = FALSE
  /\ readerRef' = 0
  /\ disc' = NoDisconnect

\* step 3, lines 136-142: port is the value the handler's closure captured
DisconnectStep3(d) ==
  IF d.port # 0
  THEN /\ disc' = [d EXCEPT !.pc = "close"]
       /\ UNCHANGED <<uiVars, readerRef>>
  ELSE DisconnectFinish

\* step 2, lines 125-133
DisconnectStep2(d) ==
  IF readableStreamClosedRef # 0
  THEN /\ disc' = [d EXCEPT !.pc = "pipe"]
       /\ UNCHANGED <<uiVars, readerRef, readableStreamClosedRef>>
  ELSE /\ DisconnectStep3(d)
       /\ UNCHANGED readableStreamClosedRef

\* cancel() is called and nothing is awaited before port.close()
HandleDisconnectNoAwait ==
  /\ connectionState \in {"CONNECTING", "CONNECTED"}
  /\ disc.pc = "idle"
  /\ IF readerRef # 0
     THEN /\ loops' = loops \ {readerRef}
          /\ IF port # 0
             THEN /\ disc' = [NoDisconnect EXCEPT !.pc = "close",
                                                  !.port = port]
                  /\ UNCHANGED <<uiVars, readerRef>>
             ELSE DisconnectFinish
          /\ UNCHANGED readableStreamClosedRef
     ELSE /\ DisconnectStep2([NoDisconnect EXCEPT !.port = port])
          /\ UNCHANGED loops
  /\ UNCHANGED <<dataVars, timeVars, connecting, timers, nconn,
                 histVars, inputBufferRef, clock, aiVars, csvContent>>

\* the click, lines 114-118: runs to the first await it meets.  cancel()
\* closes the decoded stream, which resolves the loop's pending read with
\* done: the loop of that reader leaves (lines 169-182) before any other
\* task runs, and before cancel() itself settles.
HandleDisconnect ==
  /\ connectionState \in {"CONNECTING", "CONNECTED"}
  /\ disc.pc = "idle"
  /\ IF readerRef # 0
     THEN /\ loops' = loops \ {readerRef}
          /\ readerRef' = 0
          /\ disc' = [NoDisconnect EXCEPT !.pc = "cancel", !.port = port]
          /\ UNCHANGED <<uiVars, readableStreamClosedRef>>
     ELSE /\ DisconnectStep2([NoDisconnect EXCEPT !.port = port])
          /\ UNCHANGED loops
  /\ UNCHANGED <<dataVars, timeVars, connecting, timers, nconn,
                 histVars, inputBufferRef, clock, aiVars, csvContent>>

\* how an awaited promise settles
Outcome(ok) == IF ok THEN "fulfilled" ELSE "rejected"

\* a rejected cancel() leaves the handler: nothing after it runs
DisconnectCancelSettledThrows(ok) ==
  /\ disc.pc = "cancel"
  /\ IF ok
     THEN DisconnectStep2(disc)
     ELSE /\ disc' = NoDisconnect
          /\ UNCHANGED <<uiVars, readerRef, readableStreamClosedRef>>
  /\ UNCHANGED <<dataVars, timeVars, loops, connecting, timers,
                 nconn, histVars, inputBufferRef, clock, aiVars, csvContent>>

\* reader.cancel() settled (lines 118-121): the catch only warns
DisconnectCancelSettled(ok) ==
  /\ disc.pc = "cancel"
  /\ DisconnectStep2(disc)
  /\ UNCHANGED <<dataVars, timeVars, loops, connecting, timers,
                 nconn, histVars, inputBufferRef, clock, aiVars, csvContent>>

\* the pipe promise settled (lines 127-132): the catch only warns; it
\* settles once the loop reading that pipe has left
DisconnectPipeSettled(ok) ==
  /\ disc.pc = "pipe"
  /\ readableStreamClosedRef \notin loops
  /\ readableStreamClosedRef' = 0
  /\ DisconnectStep3(disc)
  /\ UNCHANGED <<dataVars, timeVars, loops, connecting, timers,
                 nconn, histVars, inputBufferRef, clock, aiVars, csvContent>>

\* port.close() settled (lines 138-147): the catch only logs
DisconnectCloseSettled(ok) ==
  /\ disc.pc = "close"
  /\ DisconnectFinish
  /\ UNCHANGED <<dataVars, timeVars, readableStreamClosedRef, loops,
                 connecting, timers, nconn, histVars,
                 inputBufferRef, clock, aiVars, csvContent>>

\* ------------------------------------------------------------- wall clock
Tick ==
  /\ clock < MaxClock
  /\ clock' = clock + 1
  /\ UNCHANGED <<uiVars, dataVars, timeVars, connVars, histVars,
                 inputBufferRef, aiVars, csvContent, awaited>>

\* ----------------------------------------------------------- specification
\* every text of 1..n characters
TextsUpTo(n) == UNION {[1..k -> Chars] : k \in 1..n}

\* the chunks a session delivers: a two-field record followed by the first
\* character of the next record, and a bare terminator
SessionChunks == {<<"1", COMMA, "2", NL, "2">>, <<NL>>}

Next ==
  \/ HandleConnect
  \/ \E c \in connecting : ConnectOpened(c)
  \/ \E c \in connecting : ConnectFailed(c)
  \/ CoolDownTimer
  \/ \E r \in loops, chunk \in SessionChunks :
       reads < MaxReads /\ ReadChunk(r, chunk)
  \/ \E r \in loops : ReadLoopExit(r)
  \/ \E r \in loops : ReadLoopError(r)
  \/ HandleDisconnect /\ UNCHANGED awaited
  \/ \E ok \in BOOLEAN : DisconnectCancelSettled(ok) /\ UNCHANGED awaited
  \/ \E ok \in BOOLEAN : DisconnectPipeSettled(ok) /\ UNCHANGED awaited
  \/ \E ok \in BOOLEAN : DisconnectCloseSettled(ok) /\ UNCHANGED awaited
  \/ TogglePause
  \/ HandleClear
  \/ \E key \in RenamedKeys \cap DOMAIN sensorNames, newName \in Names :
       HandleNameChange(key, newName)
  \/ Tick

Spec == Init /\ [][Next]_vars

\* -------------------------------------------- specification: chunked feeds
\* the state after the first connect, before any chunk
InitChunks ==
  /\ connectionState = "CONNECTED"
  /\ port = 1
  /\ data = <<>>
  /\ dataKeys = <<>>
  /\ sensorNames = NoNames
  /\ startTime = 1
  /\ isPaused = FALSE
  /\ readerRef = 1
  /\ readableStreamClosedRef = 1
  /\ inputBufferRef = <<>>
  /\ isPausedRef = FALSE
  /\ startTimeRef = 1
  /\ clock = 1
  /\ loops = {1}
  /\ connecting = {}
  /\ timers = 0
  /\ nconn = 1
  /\ disc = NoDisconnect
  /\ aiAnalysis = 0
  /\ isAnalyzing = FALSE
  /\ analysis = NoAnalysis
  /\ nreq = 0
  /\ csvContent = NoCsv
  /\ awaited = <<>>
  /\ reads = 0
  /\ fed = <<>>
  /\ accepted = <<>>
  /\ dropped = 0
  /\ sessionPoints = 0

RECURSIVE Flatten(_)
Flatten(chunks) ==
  IF chunks = <<>> THEN <<>> ELSE Head(chunks) \o Flatten(Tail(chunks))

\* handleDataChunk(value) of line 174, with the chunk recorded
FeedChunk(chunk) ==
  /\ loops # {}
  /\ HandleDataChunk(chunk)
  /\ fed' = Append(fed, chunk)

NextChunks ==
  \E chunk \in TextsUpTo(MaxText - Len(Flatten(fed))) : FeedChunk(chunk)

SpecChunks == InitChunks /\ [][NextChunks]_vars

\* the field values of a point, in key order, without its two time fields
FieldValues(pt) ==
  LET n == Cardinality(DOMAIN pt \ {"timestamp", "formattedTime"})
  IN [i \in 1..n |-> pt[SensorKey(i-1)]]

ValuesOf(points) == [i \in 1..Len(points) |-> FieldValues(points[i])]

\* the samples one call of handleDataChunk accepts from an empty buffer
WholeFeed(text) == NewDataPoints(CompleteLines(<<>>, text), clock, startTimeRef)

\* C1: feeding a text chunk by chunk, however it is cut, stores the same
\* samples (same field values, same order) as feeding the whole text to
\* handleDataChunk in one chunk.
ChunkingInvariance ==
  ValuesOf(data) = ValuesOf(WholeFeed(Flatten(fed)))

\* a record "12,1" cut inside its first field, at the comma and right
\* before the newline, was stored as one sample
ChunkingWitness ==
  /\ fed = << <<"1">>, <<"2">>, <<COMMA>>, <<"1">>, <<NL>> >>
  /\ ValuesOf(data) = << <<12, 1>> >>

\* a record that is empty after trimming, or has a field that is not a number
RejectedRecord(line) ==
  LET trimmed == Trim(line)
      fields  == SplitOn(trimmed, COMMA)
  IN \/ trimmed = <<>>
     \/ \E i \in 1..Len(fields) : ParseFloat(Trim(fields[i])) = NaN

KeptRecord(line) == ~RejectedRecord(line)

Range(f) == {f[x] : x \in DOMAIN f}

FilledPoint(i) ==
  [k \in {"timestamp", "formattedTime", SensorKey(0)} |->
     IF k = SensorKey(0) THEN i ELSE 0]

FilledStore == [i \in 1..(MAX_POINTS - 1) |-> FilledPoint(i)]

InitStore ==
  /\ connectionState = "CONNECTED"
  /\ port = 1
  /\ data = FilledStore
  /\ dataKeys = <<SensorKey(0)>>
  /\ sensorNames = (SensorKey(0) :> SensorKey(0))
  /\ startTime = 1
  /\ isPaused = FALSE
  /\ readerRef = 1
  /\ readableStreamClosedRef = 1
  /\ inputBufferRef = <<>>
  /\ isPausedRef = FALSE
  /\ startTimeRef = 1
  /\ clock = 1
  /\ loops = {1}
  /\ connecting = {}
  /\ timers = 0
  /\ nconn = 1
  /\ disc = NoDisconnect
  /\ aiAnalysis = 0
  /\ isAnalyzing = FALSE
  /\ analysis = NoAnalysis
  /\ nreq = 0
  /\ csvContent = NoCsv
  /\ awaited = <<>>
  /\ reads = 0
  /\ fed = <<>>
  /\ accepted = FilledStore
  /\ dropped = 0
  /\ sessionPoints = MAX_POINTS - 1

\* a chunk of two records, one of one record, and a partial record
StoreChunks == {<<"1", NL, "2", NL>>, <<"2", NL>>, <<"1">>}

NextStore ==
  \/ \E r \in loops, chunk \in StoreChunks :
       reads < MaxReads /\ ReadChunk(r, chunk)
  \/ TogglePause
  \/ HandleClear
  \/ Tick

SpecStore == InitStore /\ [][NextStore]_vars

\* C2: the store never holds more than 2000 samples and is the most recent
\* min(2000, k) of the k samples accepted since the last clear, in order.
BoundedFifo ==
  LET k == Len(accepted)
      m == Min(MAX_POINTS, k)
  IN /\ Len(data) <= MAX_POINTS
     /\ data = [i \in 1..m |-> accepted[k - m + i]]

\* one chunk of two samples overflowed the store: the oldest was evicted
BoundedFifoWitness ==
  /\ reads = 1
  /\ Len(accepted) = MAX_POINTS + 1
  /\ Len(data) = MAX_POINTS
  /\ data[1] = FilledPoint(2)

\* --------------------------------------------- claims on the session (Spec)
\* what a chunk read while not paused appends: the kept records of the
\* assembled lines, in order
AppendsKeptRecords(chunk) ==
  LET all  == SplitOn(inputBufferRef \o chunk, NL)
      kept == SelectSeq(SubSeq(all, 1, Len(all) - 1), KeptRecord)
  IN /\ inputBufferRef' = all[Len(all)]
     /\ ValuesOf(data') =
          ValuesOf(data) \o [i \in 1..Len(kept) |-> ParseParts(Trim(kept[i]))]

\* C3: while paused, a chunk changes neither the store nor the registry,
\* and resuming adds nothing; while not paused the valid records of a chunk
\* are appended.
PauseSemantics ==
  [][/\ (isPaused /\ reads' # reads) => UNCHANGED <<data, dataKeys, sensorNames>>
     /\ (isPaused /\ ~isPaused') => UNCHANGED <<data, dataKeys, sensorNames>>
     /\ (~isPaused /\ reads' # reads) =>
          \E chunk \in SessionChunks : AppendsKeptRecords(chunk)]_vars

\* a two-field record completed while paused was discarded; after resume
\* the next record was stored, alone
PauseWitness ==
  /\ connectionState = "CONNECTED"
  /\ ~isPaused
  /\ nconn = 1
  /\ reads = 2
  /\ dropped = 1
  /\ ValuesOf(data) = << <<2>> >>

\* the timestamps of the points a step accepts are measured from the epoch
StampedFromEpoch ==
  \A i \in (Len(accepted) + 1)..Len(accepted') :
     accepted'[i]["timestamp"] = clock - startTimeRef

\* C4: togglePause leaves the epoch, the store, the registry and the
\* pending buffer unchanged, and every accepted sample is stamped against
\* the epoch in force, before a pause as after a resume.
PauseKeepsEpoch ==
  [][/\ TogglePause => UNCHANGED <<startTime, startTimeRef, data, dataKeys,
                                   sensorNames, inputBufferRef>>
     /\ Len(accepted') > Len(accepted) => StampedFromEpoch]_vars

\* after a pause (one record discarded) and a resume, a sample accepted one
\* millisecond after the connect carries the timestamp 1
PauseKeepsEpochWitness ==
  /\ ~isPaused
  /\ nconn = 1
  /\ dropped = 1
  /\ startTimeRef = 1
  /\ clock = 2
  /\ Len(data) = 1
  /\ data[1]["timestamp"] = 1

\* the points stored under the current epoch
SessionTail == SubSeq(data, Len(data) - sessionPoints + 1, Len(data))

\* C5: clear empties the store, the key list and the name map and sets the
\* epoch to the time of the clear; the samples accepted afterwards are
\* measured from it.
ClearResets ==
  /\ [][HandleClear => /\ data' = <<>>
                       /\ dataKeys' = <<>>
                       /\ DOMAIN sensorNames' = {}
                       /\ startTime' = clock
                       /\ startTimeRef' = clock]_vars
  /\ [](\A i \in 1..Len(SessionTail) :
          /\ SessionTail[i]["timestamp"] >= 0
          /\ SessionTail[i]["timestamp"] <= clock - startTime)

\* a clear one millisecond after the connect emptied a store of one sample;
\* the record completed afterwards carries the timestamp 0
ClearResetsWitness ==
  /\ nconn = 1
  /\ reads = 2
  /\ dropped = 0
  /\ startTime = 2
  /\ dataKeys = <<"Sensor 1">>
  /\ Len(data) = 1
  /\ ValuesOf(data) = << <<2>> >>
  /\ data[1]["timestamp"] = 0

\* C6: a successful connect leaves the pending buffer empty.
ConnectClearsBuffer ==
  [][(\E c \in connecting : ConnectOpened(c)) => inputBufferRef' = <<>>]_vars

\* C7: clear leaves the pending buffer empty.
ClearEmptiesBuffer ==
  [][HandleClear => inputBufferRef' = <<>>]_vars

NonDecreasing(points) ==
  \A i \in 1..(Len(points) - 1) :
     points[i]["timestamp"] <= points[i+1]["timestamp"]

\* C8: the samples of the store are in non-decreasing timestamp order.
TimestampOrder == NonDecreasing(data)

\* C8, amended: the samples stored since the last connect or clear are in
\* non-decreasing timestamp order.
SessionTimestampOrder == NonDecreasing(SessionTail)

\* two samples of one session, accepted one millisecond apart
SessionTimestampOrderWitness ==
  /\ sessionPoints = 2
  /\ Len(data) = 2
  /\ data[1]["timestamp"] < data[2]["timestamp"]

\* the channel keys of a point are Sensor 1..Sensor m for its m fields
PositionalKeys(pt) ==
  LET keys == DOMAIN pt \ {"timestamp", "formattedTime"}
  IN keys = {SensorKey(idx) : idx \in 0..(Cardinality(keys) - 1)}

\* C10: a non-empty key list is changed by clear only, which empties it;
\* every sample carries exactly the keys Sensor 1..Sensor m of its m fields.
KeysFirstSeenWins ==
  /\ [][dataKeys # <<>> =>
          \/ dataKeys' = dataKeys
          \/ HandleClear /\ dataKeys' = <<>>]_vars
  /\ [](\A i \in 1..Len(data) : PositionalKeys(data[i]))

\* two keys are registered and the last sample has one field
KeysFirstSeenWinsWitness ==
  /\ dataKeys = <<"Sensor 1", "Sensor 2">>
  /\ Len(data) = 2
  /\ DOMAIN data[1] = {"timestamp", "formattedTime", "Sensor 1", "Sensor 2"}
  /\ DOMAIN data[2] = {"timestamp", "formattedTime", "Sensor 1"}

\* ------------------------------------- specification: records of any width
\* a chunk of a one-field and a two-field record, and chunks of one record
KeyChunks == {<<"1", NL, "1", COMMA, "2", NL>>, <<"1", COMMA, "2", NL>>,
              <<"2", NL>>}

NextKeys ==
  \/ \E r \in loops, chunk \in KeyChunks :
       reads < MaxReads /\ ReadChunk(r, chunk)
  \/ TogglePause
  \/ HandleClear
  \/ Tick

SpecKeys == InitChunks /\ [][NextKeys]_vars

\* Sensor 1..Sensor k
FirstKeys(k) == [i \in 1..k |-> SensorKey(i - 1)]

FieldCount(pt) == Len(FieldValues(pt))

WidestAccepted ==
  LET new == SubSeq(accepted', Len(accepted) + 1, Len(accepted'))
  IN CHOOSE k \in {FieldCount(new[i]) : i \in 1..Len(new)} :
       \A i \in 1..Len(new) : FieldCount(new[i]) <= k

DisconnectClicked == HandleDisconnect /\ awaited' = <<>>

CancelSettled(ok) ==
  DisconnectCancelSettled(ok) /\ awaited' = Append(awaited, <<"cancel", Outcome(ok)>>)

PipeSettled(ok) ==
  DisconnectPipeSettled(ok) /\ awaited' = Append(awaited, <<"pipe", Outcome(ok)>>)

CloseSettled(ok) ==
  DisconnectCloseSettled(ok) /\ awaited' = Append(awaited, <<"close", Outcome(ok)>>)

NextTeardown ==
  \/ HandleConnect
  \/ \E c \in connecting : ConnectOpened(c)
  \/ \E c \in connecting : ConnectFailed(c)
  \/ CoolDownTimer
  \/ \E r \in loops : ReadLoopExit(r)
  \/ \E r \in loops : ReadLoopError(r)
  \/ DisconnectClicked
  \/ \E ok \in BOOLEAN : CancelSettled(ok)
  \/ \E ok \in BOOLEAN : PipeSettled(ok)
  \/ \E ok \in BOOLEAN : CloseSettled(ok)
  \/ TogglePause

SpecTeardown == Init /\ [][NextTeardown]_vars

\* the awaits that have settled in the teardown, in order
AwaitedSteps == [i \in 1..Len(awaited) |-> awaited[i][1]]

\* C12: port.close() is invoked only after reader.cancel() has settled, when
\* a reader exists, and after the pipe's closed promise has settled, when
\* one exists; the pipe is awaited only after cancel() has settled.
CloseAfterCancelAndPipe ==
  [][/\ (disc'.pc = "close" /\ disc.pc # "close") =>
          /\ disc.pc \in {"idle", "cancel", "pipe"}
          /\ disc.pc = "idle" => (readerRef = 0 /\ readableStreamClosedRef = 0)
          /\ disc.pc = "cancel" => readableStreamClosedRef = 0
     /\ (disc'.pc = "pipe" /\ disc.pc # "pipe") =>
          (disc.pc = "cancel" \/ (disc.pc = "idle" /\ readerRef = 0))
     /\ disc.pc = "cancel" => disc'.pc \in {"cancel", "pipe", "close", "idle"}
     /\ disc.pc = "pipe" => disc'.pc \in {"pipe", "close", "idle"}]_vars

\* close is pending after cancel and then the pipe have settled
CloseAfterCancelAndPipeWitness ==
  /\ disc.pc = "close"
  /\ AwaitedSteps = <<"cancel", "pipe">>

\* C13: whichever of cancel(), the pipe promise and port.close() is
\* fulfilled or rejected, handleDisconnect goes on to its remaining steps,
\* and when it returns the state is DISCONNECTED, not paused, with port and
\* reader reference null.
TeardownSwallowsErrors ==
  [][/\ ((disc.pc # "idle" \/ HandleDisconnect) /\ disc'.pc = "idle") =>
          /\ connectionState' = "DISCONNECTED"
          /\ isPaused' = FALSE
          /\ port' = 0
          /\ readerRef' = 0
     /\ (disc.pc = "cancel" /\ disc'.pc # "cancel") =>
          disc'.pc = IF readableStreamClosedRef # 0 THEN "pipe"
                     ELSE IF disc.port # 0 THEN "close" ELSE "idle"
     /\ (disc.pc = "pipe" /\ disc'.pc # "pipe") =>
          disc'.pc = IF disc.port # 0 THEN "close" ELSE "idle"
     /\ (disc.pc = "close" /\ disc'.pc # "close") => disc'.pc = "idle"]_vars

\* all three awaits were rejected and the teardown has returned
TeardownSwallowsErrorsWitness ==
  /\ awaited = <<<<"cancel", "rejected">>, <<"pipe", "rejected">>,
                 <<"close", "rejected">>>>
  /\ disc = NoDisconnect
  /\ connectionState = "DISCONNECTED"
  /\ port = 0
  /\ readerRef = 0
  /\ isPaused = FALSE

\* C14: when reader.read() rejects, the connection state becomes ERROR.
ReadFailureSetsError ==
  [][(\E r \in loops : ReadLoopError(r)) => connectionState' = "ERROR"]_vars

\* ------------------------------------------- specification: timers fire
\* a callback scheduled with setTimeout is run once its delay has passed
\* the steps of Next at one reading of the wall clock
NextFrozen ==
  \/ HandleConnect
  \/ \E c \in connecting : ConnectOpened(c)
  \/ \E c \in connecting : ConnectFailed(c)
  \/ CoolDownTimer
  \/ \E r \in loops, chunk \in SessionChunks :
       reads < MaxReads /\ ReadChunk(r, chunk)
  \/ \E r \in loops : ReadLoopExit(r)
  \/ \E r \in loops : ReadLoopError(r)
  \/ HandleDisconnect /\ UNCHANGED awaited
  \/ \E ok \in BOOLEAN : DisconnectCancelSettled(ok) /\ UNCHANGED awaited
  \/ \E ok \in BOOLEAN : DisconnectPipeSettled(ok) /\ UNCHANGED awaited
  \/ \E ok \in BOOLEAN : DisconnectCloseSettled(ok) /\ UNCHANGED awaited
  \/ TogglePause
  \/ HandleClear
  \/ \E key \in RenamedKeys \cap DOMAIN sensorNames, newName \in Names :
       HandleNameChange(key, newName)

FairSpec == Init /\ [][NextFrozen]_vars /\ WF_vars(CoolDownTimer)

\* C15: a failed requestPort or open sets ERROR, starts no read loop and
\* leaves the store, the key list, the names and the epoch as they were;
\* from ERROR the state eventually becomes DISCONNECTED.
ConnectFailureRecovers ==
  /\ [][\A c \in connecting : ConnectFailed(c) =>
          /\ connectionState' = "ERROR"
          /\ loops' = loops
          /\ readerRef' = readerRef
          /\ UNCHANGED <<data, dataKeys, sensorNames, startTime,
                         startTimeRef>>]_vars
  /\ (connectionState = "ERROR") ~> (connectionState = "DISCONNECTED")

\* the only connect attempt failed and its cool-down timer has fired
ConnectFailureRecoversWitness ==
  /\ nconn = 1
  /\ connecting = {}
  /\ readableStreamClosedRef = 0
  /\ timers = 0
  /\ connectionState = "DISCONNECTED"

\* ------------------------------------------- specification: AI analysis
\* a filled store, its chunks, and the analysis requests
NextAnalysis ==
  \/ \E r \in loops, chunk \in StoreChunks :
       reads < MaxReads /\ ReadChunk(r, chunk)
  \/ HandleAIAnalyze
  \/ AnalysisReturned
  \/ AnalysisFailed
  \/ HandleClear
  \/ TogglePause
  \/ Tick

SpecAnalysis == InitStore /\ [][NextAnalysis]_vars

\* C16: the result of a request that was in flight when clear ran is not
\* installed when that request returns.
ClearCancelsAnalysis ==
  [][(analysis.cleared /\ analysis' = NoAnalysis) => aiAnalysis' = 0]_vars

\* C17: clear leaves the connection state, the pause flag, the port, the
\* reader and the running read loops as they were.
ClearKeepsIngestion ==
  [][HandleClear =>
       UNCHANGED <<connectionState, isPaused, isPausedRef, port, readerRef,
                   readableStreamClosedRef, loops, disc>>]_vars

\* the first connection's loop accepted a sample after a clear
ClearKeepsIngestionWitness ==
  /\ nconn = 1
  /\ connectionState = "CONNECTED"
  /\ loops = {1}
  /\ readerRef = 1
  /\ reads = 2
  /\ dropped = 0
  /\ ValuesOf(accepted) = << <<2>> >>

\* C18: at most one read loop is running.
SingleReadLoop == Cardinality(loops) <= 1

\* ---------------------------------- specification: chunks across a pause
\* every chunk of one character, and a record cut after its first field
BufferChunks == TextsUpTo(1) \cup {<<"1", NL, "1">>, <<COMMA, "2", NL>>}

NextBuffer ==
  \/ \E chunk \in BufferChunks : reads < MaxReads /\ FeedChunk(chunk)
  \/ TogglePause

SpecBuffer == InitChunks /\ [][NextBuffer]_vars

\* the text after the last newline of s, all of s when it has none
AfterLastNewline(s) ==
  LET at == {i \in 1..Len(s) : s[i] = NL}
  IN IF at = {} THEN s
     ELSE SubSeq(s, (CHOOSE i \in at : \A j \in at : j <= i) + 1, Len(s))

\* C19: after every call of handleDataChunk, paused or not, the pending
\* buffer holds no newline and is the text after the last newline of the
\* previous buffer followed by the chunk.
PendingBufferInvariant ==
  [][fed' # fed =>
       /\ NL \notin Range(inputBufferRef')
       /\ inputBufferRef' =
            AfterLastNewline(inputBufferRef \o fed'[Len(fed')])]_vars

\* a chunk with a newline was handled while paused: the buffer keeps the
\* text after it
PendingBufferInvariantWitness ==
  /\ isPausedRef
  /\ fed = << <<"1", NL, "1">> >>
  /\ dropped = 1
  /\ inputBufferRef = <<"1">>

\* a is b with some elements left out
RECURSIVE IsSubSeq(_, _)
IsSubSeq(a, b) ==
  IF a = <<>> THEN TRUE
  ELSE IF b = <<>> THEN FALSE
  ELSE IF Head(a) = Head(b) THEN IsSubSeq(Tail(a), Tail(b))
  ELSE IsSubSeq(a, Tail(b))

\* C20: the pending buffer depends on the text received only, not on when
\* the session was paused, and every stored sample is a whole record of that
\* text: the records of the text are either stored or were discarded while
\* paused.
BufferingIgnoresPause ==
  LET whole == ValuesOf(WholeFeed(Flatten(fed)))
  IN /\ inputBufferRef = AfterLastNewline(Flatten(fed))
     /\ IsSubSeq(ValuesOf(data), whole)
     /\ Len(data) + dropped = Len(whole)

\* the record "1,2" began in a chunk handled while paused and ended after
\* the resume: it is stored with both fields
BufferingIgnoresPauseWitness ==
  /\ fed = << <<"1", NL, "1">>, <<COMMA, "2", NL>> >>
  /\ dropped = 1
  /\ ~isPausedRef
  /\ ValuesOf(data) = << <<1, 2>> >>

\* ----------------------------------------------- specification: export
\* a one-field and a two-field record
ExportChunks == {<<"1", NL>>, <<"1", COMMA, "2", NL>>}

\* the names typed into a name field, the emptied field among them
ExportNames == {"Temp", ""}

\* the readings of Date.now() after the connect at 1
Readings == {11, 1235}

\* Date.now() advances to now
Advance(now) ==
  /\ clock < now
  /\ clock' = now
  /\ UNCHANGED <<uiVars, dataVars, timeVars, connVars, histVars,
                 inputBufferRef, aiVars, csvContent, awaited>>

NextExport ==
  \/ \E r \in loops, chunk \in ExportChunks :
       reads < MaxReads /\ ReadChunk(r, chunk)
  \/ \E key \in DOMAIN sensorNames, newName \in ExportNames :
       HandleNameChange(key, newName)
  \/ HandleExport
  \/ TogglePause
  \/ \E now \in Readings : Advance(now)

SpecExport == InitChunks /\ [][NextExport]_vars

\* the digit a character writes
CharDigit(c) == CHOOSE d \in 0..9 : DigitChars[d + 1] = c

\* the number a text of digits writes
RECURSIVE DigitsValue(_)
DigitsValue(ds) ==
  IF ds = <<>> THEN 0
  ELSE 10 * DigitsValue(SubSeq(ds, 1, Len(ds) - 1)) + CharDigit(ds[Len(ds)])

\* f is digits, a point and exactly three digits, and writes ms / 1000
WritesSeconds(f, ms) ==
  /\ Len(f) >= 5
  /\ f[Len(f) - 3] = "."
  /\ \A i \in (1..Len(f)) \ {Len(f) - 3} : f[i] \in Range(DigitChars)
  /\ 1000 * DigitsValue(SubSeq(f, 1, Len(f) - 4))
       + DigitsValue(SubSeq(f, Len(f) - 2, Len(f))) = ms

\* C21: for a non-empty store export produces the header Timestamp (s),
\* Time and the display name of each registered key in registry order, and
\* one row per stored sample in store order whose first field is the
\* sample's timestamp with 3 decimals; for an empty store it produces
\* nothing; the store, the key list and the names are left unchanged.
ExportContent ==
  [][HandleExport =>
       /\ UNCHANGED <<data, dataKeys, sensorNames>>
       /\ data = <<>> => csvContent' = csvContent
       /\ data # <<>> =>
            /\ Len(csvContent'.headers) = 2 + Len(dataKeys)
            /\ csvContent'.headers[1] = "Timestamp (s)"
            /\ csvContent'.headers[2] = "Time"
            /\ \A i \in 1..Len(dataKeys) :
                 csvContent'.headers[2 + i] =
                   IF sensorNames[dataKeys[i]] = "" THEN dataKeys[i]
                   ELSE sensorNames[dataKeys[i]]
            /\ Len(csvContent'.rows) = Len(data)
            /\ \A i \in 1..Len(data) :
                 WritesSeconds(csvContent'.rows[i][1], data[i]["timestamp"])]_vars

\* two samples 10 ms apart under the name Temp were exported
ExportContentWitness ==
  /\ csvContent.headers = <<"Timestamp (s)", "Time", "Temp">>
  /\ Len(csvContent.rows) = 2
  /\ csvContent.rows[1][1] = <<"0", ".", "0", "0", "0">>
  /\ csvContent.rows[2][1] = <<"0", ".", "0", "1", "0">>

\* C22: rename(key, name) sets the display name of key to name and leaves
\* every other display name, the key list, the store, the epoch, the pause
\* flag and the connection state unchanged.
RenameIsMappingUpdate ==
  [][\A key \in DOMAIN sensorNames, newName \in ExportNames :
       HandleNameChange(key, newName) =>
         /\ DOMAIN sensorNames' = DOMAIN sensorNames
         /\ sensorNames'[key] = newName
         /\ \A k \in DOMAIN sensorNames \ {key} :
              sensorNames'[k] = sensorNames[k]
         /\ UNCHANGED <<dataKeys, data, startTime, startTimeRef, isPaused,
                        isPausedRef, connectionState>>]_vars

\* both keys carry the same name while paused, with a sample in the store
RenameIsMappingUpdateWitness ==
  /\ dataKeys = <<"Sensor 1", "Sensor 2">>
  /\ sensorNames["Sensor 1"] = "Temp"
  /\ sensorNames["Sensor 2"] = "Temp"
  /\ isPaused
  /\ Len(data) = 1

\* C23: while a read loop is running on its open port the connection state
\* is CONNECTED.
StateAgreesWithTransport ==
  loops # {} => connectionState = "CONNECTED"

\* ------------------------------------- specification: the service answers
\* the call of analyzeExperimentData settles, with a text or a failure
AnalysisSettled == AnalysisReturned \/ AnalysisFailed

FairAnalysis == SpecAnalysis /\ WF_vars(AnalysisSettled)

\* C24: an analysis request sets isAnalyzing and leaves the store, the key
\* list, the names, the pause flag and the connection state unchanged;
\* isAnalyzing is eventually false again, whether the service returns a
\* text or fails.
AnalysisTerminates ==
  /\ [][HandleAIAnalyze =>
          /\ isAnalyzing'
          /\ UNCHANGED <<data, dataKeys, sensorNames, isPaused, isPausedRef,
                         connectionState>>]_vars
  /\ isAnalyzing ~> ~isAnalyzing

\* ------------------------------------------- specification: durations
\* the timestamps in milliseconds the duration card is rendered for
Durations ==
  (0..20) \cup (990..1010) \cup {59999, 60000, 60001, 3599999, 3600000,
                                 3600001, 86400000, 360000000, 360001005}

\* the readings of Date.now() after the connect at 1
ElapsedReadings == {1 + ms : ms \in Durations}

\* the duration card of lines 619-621
DurationCard ==
  IF Len(data) > 0 THEN FormatElapsedTime(data[Len(data)]["timestamp"])
  ELSE ZeroElapsed

NextElapsed ==
  \/ \E r \in loops : reads < MaxReads /\ ReadChunk(r, <<"1", NL>>)
  \/ \E now \in ElapsedReadings : Advance(now)

SpecElapsed == InitChunks /\ [][NextElapsed]_vars

\* text is HH:MM:SS.mmm with at least two digits of hours, minutes and
\* seconds in 0..59 and milliseconds in 0..999, and adds up to ms
DecomposesTo(text, ms) ==
  LET byColon == SplitOn(text, ":")
      byPoint == SplitOn(byColon[Len(byColon)], ".")
  IN /\ Len(byColon) = 3
     /\ Len(byPoint) = 2
     /\ \A i \in 1..Len(text) : text[i] \in Range(DigitChars) \cup {":", "."}
     /\ Len(byColon[1]) >= 2
     /\ Len(byColon[2]) = 2
     /\ Len(byPoint[1]) = 2
     /\ Len(byPoint[2]) = 3
     /\ DigitsValue(byColon[2]) \in 0..59
     /\ DigitsValue(byPoint[1]) \in 0..59
     /\ DigitsValue(byPoint[2]) \in 0..999
     /\ DigitsValue(byColon[1]) * 3600000 + DigitsValue(byColon[2]) * 60000
          + DigitsValue(byPoint[1]) * 1000 + DigitsValue(byPoint[2]) = ms

\* C25: for a duration of a whole number ms >= 0 of milliseconds the text
\* of formatElapsedTime is HH:MM:SS.mmm with minutes and seconds in 0..59,
\* milliseconds in 0..999, at least two digits of hours, and its parts add
\* up to ms; for a negative or non-numeric input it is 00:00:00.000.
ElapsedDecomposition ==
  /\ Len(data) > 0 =>
       DecomposesTo(DurationCard, data[Len(data)]["timestamp"])
  /\ \A ms \in {NaN, -1000} : FormatElapsedTime(ms) = ZeroElapsed

====
